---- MODULE Spec2Model ----
(***************************************************************************)
(* Model of the ILX526A Teensy spectrometer interface.                     *)
(*                                                                         *)
(*  - teensy/usb_read.py: the acquisition script.  It opens the serial     *)
(*    port with pyserial's default timeout (None, line 7), so readline()   *)
(*    returns a whole line ending in "\n" and read(n) returns exactly n    *)
(*    bytes; the only other outcomes of a read are an exception (the       *)
(*    device is unplugged) and blocking for ever (the device sends no      *)
(*    more).  The script has no exception handler: an exception ends it.   *)
(*  - spectrointerface/comm/USBCommunicator.py: openPort / closePort.      *)
(*  - spectrointerface/gui/calibrationWindow.py: the CalibrationWindow      *)
(*    slots and the calibration table they keep.                            *)
(*                                                                         *)
(* The device's byte stream is an input, fixed in the initial state.  A    *)
(* byte the script has read with ser.read is a cell [o, v]: v is the byte  *)
(* value and o its index in the stream.  np.frombuffer decodes in the byte *)
(* order of the host; the model is of a little-endian host.                *)
(***************************************************************************)
EXTENDS Integers, Sequences, FiniteSets, TLC

VARIABLES
    segs,         \* what the device sends: a sequence of segments (noise, marker, frame body)
    stream,       \* the bytes of segs, in order: what the serial port delivers
    rd,           \* number of bytes of stream the script has consumed
    pc,           \* line of usb_read.py the script is about to execute, or "raised"
    start,        \* usb_read.py: start, the last line returned by ser.readline()
    response,     \* usb_read.py: response
    discard,      \* usb_read.py: discard
    delay,        \* usb_read.py: delay
    out,          \* what the script printed: one record per frame (lines 42-44)
    testdat,      \* contents of test.dat (line 40)
    err,          \* the exception that ended the script, or "none"
    errAt,        \* the line that raised it
    serIsOpen,    \* usb_read.py: ser is open (line 7; ser.close() is line 68)
    lastDropped,  \* the last line the SOT wait loop discarded in this scan
    stop,         \* the external stop request (continueFlag of the commented-out stopRead)
    matches,      \* history: how many times the wait loop has left on start == SOT
    isPortOpen,   \* USBCommunicator.isPortOpen: "unset", "True" or "False"
    ser,          \* USBCommunicator.ser: a handle id, or 0 while the attribute is unset
    handles,      \* ids of the serial handles whose OS descriptor is open
    nextId,       \* id of the next serial.Serial object
    held,         \* an openPort succeeded and no closePort has succeeded since
    last,         \* the last USBCommunicator call and how it ended
    table,        \* CalibrationWindow.tableWidget: its rows, two cells each
    calibration_table,  \* CalibrationWindow.calibration_table: the array
    disk          \* the array in the file onSaveClick wrote last, or NoFile

acqVars == <<segs, stream, rd, pc, start, response, discard, delay, out, testdat,
             err, errAt, serIsOpen, lastDropped, stop, matches>>
commVars == <<isPortOpen, ser, handles, nextId, held, last>>
calVars == <<table, calibration_table, disk>>
vars == <<acqVars, commVars, calVars>>

----------------------------------------------------------------------------
(* Bounds of the model *)

\* pixels per frame: 3100 in usb_read.py line 33.  19 pixels is the smallest
\* frame whose payload can hold the 37 bytes of the marker.
PixelCount == 19
\* segments in the device's stream
MaxFrames == 2
\* serial.Serial objects a USBCommunicator creates in the model
MaxHandles == 3
\* pixels of the calibration table: 3000 in calibrationWindow.py
CalPixels == 2
\* rows onAddClick takes the table to
MaxRows == 2

----------------------------------------------------------------------------
(* usb_read.py: constants *)

NL == 10

\* line 12: "7eae261d-dde2-4eed-a293-a7cd17e4379a\n"
SOT == <<55, 101, 97, 101, 50, 54, 49, 100, 45, 100, 100, 101, 50, 45, 52, 101,
         101, 100, 45, 97, 50, 57, 51, 45, 97, 55, 99, 100, 49, 55, 101, 52, 51,
         55, 57, 97, 10>>

\* the sizes of the four reads of a frame, lines 33, 35, 37, 38
PayloadLenOdd == 2 * PixelCount - 1
PayloadLen == 2 * PixelCount
\* line 30, commented out: discard = ser.read(2)
DelimLenTwo == 1 + 1
DelimLen == 1
TimingLen == 4
FrameLen == PayloadLen + DelimLen + TimingLen + DelimLen

----------------------------------------------------------------------------
(* The device: the streams the script is run on *)

\* SOT with the byte at position i replaced by b
Altered(i, b) == [SOT EXCEPT ![i] = b]

\* Noise made of whole lines, none of them the marker: a line whose first
\* byte differs, one whose last byte differs, a prefix of the marker cut by a
\* newline, an empty line
NoiseLines ==
    Altered(1, 56) \o Altered(Len(SOT) - 1, 98) \o SubSeq(SOT, 1, 18) \o <<NL>> \o <<NL>>

\* Noise before a marker: none, whole lines, or a byte with no newline after it
Noises == { <<>>, NoiseLines, <<48>> }

\* Payloads: 08 00 10 00 18 00 ..., and one that holds the bytes of the marker
Ramp == [i \in 1..(2 * PixelCount) |-> IF i % 2 = 1 THEN 8 * ((i + 1) \div 2) ELSE 0]
MarkerPayload == [i \in 1..(2 * PixelCount) |-> IF i <= Len(SOT) THEN SOT[i] ELSE 255]

\* Frame bodies: payload, delimiter 1, timing, delimiter 2.  The first two
\* differ in their delimiters only.
Bodies ==
    { [payload |-> Ramp, d1 |-> <<255>>, timing |-> <<1, 0, 0, 0>>, d2 |-> <<255>>],
      [payload |-> Ramp, d1 |-> <<NL>>, timing |-> <<1, 0, 0, 0>>, d2 |-> <<NL>>],
      [payload |-> MarkerPayload, d1 |-> <<255>>, timing |-> <<NL, 255, 0, 1>>,
       d2 |-> <<255>>] }

WholeBody == 2 * PixelCount + 6

\* Where the stream can end inside its last frame: right after the marker, in
\* the payload, in the timing field, before delimiter 2
Cuts == { 0, PixelCount, 2 * PixelCount + 3, 2 * PixelCount + 5 }

WholeSegs ==
    { [noise |-> n, payload |-> b.payload, d1 |-> b.d1, timing |-> b.timing,
       d2 |-> b.d2, sent |-> WholeBody] : n \in Noises, b \in Bodies }

CutSegs ==
    { [noise |-> n, payload |-> Ramp, d1 |-> <<255>>, timing |-> <<1, 0, 0, 0>>,
       d2 |-> <<255>>, sent |-> c] : n \in Noises, c \in Cuts }

\* the sequences of k segments: whole ones, the last one whole or cut
RECURSIVE WholeSeqs(_)
WholeSeqs(k) ==
    IF k = 0 THEN { <<>> }
    ELSE { Append(s, g) : s \in WholeSeqs(k - 1), g \in WholeSegs }

SegSeqs ==
    { <<>> } \cup
    UNION { { Append(s, g) : s \in WholeSeqs(k - 1), g \in WholeSegs \cup CutSegs } :
            k \in 1..MaxFrames }

\* the bytes of one segment
SegBytes(g) ==
    g.noise \o SOT \o SubSeq(g.payload \o g.d1 \o g.timing \o g.d2, 1, g.sent)

RECURSIVE Flatten(_)
Flatten(ss) == IF ss = <<>> THEN <<>> ELSE SegBytes(Head(ss)) \o Flatten(Tail(ss))

----------------------------------------------------------------------------
(* pyserial: ser.readline() and ser.read(n) with timeout None *)

\* a newline is still to come: readline returns
CanReadLine == \E j \in (rd + 1)..Len(stream) : stream[j] = NL

\* index of the next newline
LineEnd ==
    CHOOSE j \in (rd + 1)..Len(stream) :
        /\ stream[j] = NL
        /\ \A i \in (rd + 1)..(j - 1) : stream[i] # NL

\* n more bytes are still to come: read(n) returns
CanRead(n) == rd + n <= Len(stream)

\* the n bytes read(n) returns
ReadCells(n) == [i \in 1..n |-> [o |-> rd + i, v |-> stream[rd + i]]]

Values(cells) == [i \in 1..Len(cells) |-> cells[i].v]
Offsets(cells) == [i \in 1..Len(cells) |-> cells[i].o]

----------------------------------------------------------------------------
(* np.frombuffer *)

RECURSIVE BigEndian(_)
BigEndian(bytes) ==
    IF bytes = <<>> THEN 0
    ELSE bytes[Len(bytes)] + 256 * BigEndian(SubSeq(bytes, 1, Len(bytes) - 1))

RECURSIVE LittleEndian(_)
LittleEndian(bytes) ==
    IF bytes = <<>> THEN 0 ELSE Head(bytes) + 256 * LittleEndian(Tail(bytes))

\* np.frombuffer raises ValueError when the buffer is not a whole number of items
CanDecode(buf, size) == Len(buf) % size = 0

\* np.frombuffer(buf, np.uint16 / np.uint32): the items of size bytes, in order
FromBuffer(buf, size) ==
    [k \in 1..(Len(buf) \div size) |->
        LittleEndian(SubSeq(Values(buf), size * (k - 1) + 1, size * k))]

----------------------------------------------------------------------------
(* calibrationWindow.py: the cells of tableWidget and the arrays *)

\* a wavelength in nm, as typed into a cell or shown in one
Wl == 500

\* tableWidget.item(row, col) is None: no item was ever set in the cell
NoItem == [item |-> FALSE, num |-> FALSE, val |-> 0]
\* an item whose text is "", which int() and float() reject with ValueError
EmptyText == [item |-> TRUE, num |-> FALSE, val |-> 0]
\* an item whose text is the number n
Num(n) == [item |-> TRUE, num |-> TRUE, val |-> n]

\* what the user types into a cell of column 0 / column 1
PixTexts == {EmptyText, Num(1), Num(CalPixels)}
WlTexts == {EmptyText, Num(Wl)}

\* lines 132-141: two rows, items with empty text in row 0 only
InitialTable ==
    << [pix |-> EmptyText, wl |-> EmptyText], [pix |-> NoItem, wl |-> NoItem] >>

\* line 154: np.zeros(3000)
Zeros == [kind |-> "zeros", len |-> CalPixels, points |-> <<>>]

\* no calibration file has been written
NoFile == [kind |-> "none", len |-> 0, points |-> <<>>]

\* an array np.load returns from a file written by something else: one entry short
ForeignFile == [kind |-> "file", len |-> CalPixels - 1, points |-> <<>>]

----------------------------------------------------------------------------
(* usb_read.py: the acquisition loop, lines 22-44 *)

\* the line ends with SOT
EndsWithSOT(line) ==
    /\ Len(line) >= Len(SOT)
    /\ SubSeq(line, Len(line) - Len(SOT) + 1, Len(line)) = SOT

\* line 25: start != SOT is false
IsSOT(line) == line = SOT

\* Init: the state when the script reaches line 22, and a fresh USBCommunicator
Init ==
    /\ segs \in SegSeqs
    /\ stream = Flatten(segs)
    /\ rd = 0
    /\ pc = "L24"
    /\ start = <<>>
    /\ response = <<>>
    /\ discard = <<>>
    /\ delay = <<>>
    /\ out = <<>>
    /\ testdat = <<>>
    /\ err = "none"
    /\ errAt = "none"
    /\ serIsOpen = TRUE
    /\ lastDropped = <<>>
    /\ stop = FALSE
    /\ matches = 0
    /\ isPortOpen = "unset"
    /\ ser = 0
    /\ handles = {}
    /\ nextId = 1
    /\ held = FALSE
    /\ last = [op |-> "__init__", port |-> "", cause |-> "none",
               raised |-> "none", before |-> "unset"]
    /\ table = InitialTable
    /\ calibration_table = Zeros
    /\ disk = NoFile

\* line 24: start = ser.readline()
FirstLine ==
    /\ pc = "L24"
    /\ CanReadLine
    /\ start' = SubSeq(stream, rd + 1, LineEnd)
    /\ rd' = LineEnd
    /\ pc' = "L25"
    /\ lastDropped' = <<>>
    /\ UNCHANGED <<segs, stream, response, discard, delay, out, testdat, err,
                   errAt, serIsOpen, stop, matches>>

\* the wait loop gives up after one dropped line
SyncDiscardOnce ==
    /\ pc = "L25"
    /\ ~IsSOT(start)
    /\ lastDropped = <<>>
    /\ CanReadLine
    /\ start' = SubSeq(stream, rd + 1, LineEnd)
    /\ rd' = LineEnd
    /\ lastDropped' = start
    /\ UNCHANGED <<segs, stream, pc, response, discard, delay, out, testdat, err,
                   errAt, serIsOpen, stop, matches>>

\* lines 25-28: start != SOT, so the line is dropped and the next one read
SyncDiscard ==
    /\ pc = "L25"
    /\ ~IsSOT(start)
    /\ CanReadLine
    /\ start' = SubSeq(stream, rd + 1, LineEnd)
    /\ rd' = LineEnd
    /\ lastDropped' = start
    /\ UNCHANGED <<segs, stream, pc, response, discard, delay, out, testdat, err,
                   errAt, serIsOpen, stop, matches>>

\* lines 25, 31: start == SOT ends the wait loop
SyncFound ==
    /\ pc = "L25"
    /\ IsSOT(start)
    /\ pc' = "L33"
    /\ UNCHANGED <<segs, stream, rd, start, response, discard, delay, out, testdat,
                   err, errAt, serIsOpen, lastDropped, stop>>
    /\ matches' = matches + 1

\* line 33: response = ser.read(2*3100)
ReadPayload ==
    /\ pc = "L33"
    /\ CanRead(PayloadLen)
    /\ response' = ReadCells(PayloadLen)
    /\ rd' = rd + PayloadLen
    /\ pc' = "L35"
    /\ UNCHANGED <<segs, stream, start, discard, delay, out, testdat, err, errAt,
                   serIsOpen, lastDropped, stop, matches>>

\* line 35 left out: delimiter 1 stays in the stream
SkipDelim1 ==
    /\ pc = "L35"
    /\ pc' = "L37"
    /\ UNCHANGED <<segs, stream, rd, start, response, discard, delay, out, testdat,
                   err, errAt, serIsOpen, lastDropped, stop, matches>>

\* line 35: discard = ser.read(1)
ReadDelim1 ==
    /\ pc = "L35"
    /\ CanRead(DelimLen)
    /\ discard' = ReadCells(DelimLen)
    /\ rd' = rd + DelimLen
    /\ pc' = "L37"
    /\ UNCHANGED <<segs, stream, start, response, delay, out, testdat, err, errAt,
                   serIsOpen, lastDropped, stop, matches>>

\* line 37: delay = ser.read(4)
ReadTiming ==
    /\ pc = "L37"
    /\ CanRead(TimingLen)
    /\ delay' = ReadCells(TimingLen)
    /\ rd' = rd + TimingLen
    /\ pc' = "L38"
    /\ UNCHANGED <<segs, stream, start, response, discard, out, testdat, err, errAt,
                   serIsOpen, lastDropped, stop, matches>>

\* line 38 left out: delimiter 2 stays in the stream
SkipDelim2 ==
    /\ pc = "L38"
    /\ pc' = "L39"
    /\ UNCHANGED <<segs, stream, rd, start, response, discard, delay, out, testdat,
                   err, errAt, serIsOpen, lastDropped, stop, matches>>

\* delimiter 2 is compared with 255 and the frame dropped when it differs
ReadDelim2Checked ==
    /\ pc = "L38"
    /\ CanRead(DelimLen)
    /\ discard' = ReadCells(DelimLen)
    /\ rd' = rd + DelimLen
    /\ pc' = IF stream[rd + 1] = 255 THEN "L39" ELSE "L24"
    /\ UNCHANGED <<segs, stream, start, response, delay, out, testdat, err, errAt,
                   serIsOpen, lastDropped, stop, matches>>

\* line 38: discard = ser.read(1)
ReadDelim2 ==
    /\ pc = "L38"
    /\ CanRead(DelimLen)
    /\ discard' = ReadCells(DelimLen)
    /\ rd' = rd + DelimLen
    /\ pc' = "L39"
    /\ UNCHANGED <<segs, stream, start, response, delay, out, testdat, err, errAt,
                   serIsOpen, lastDropped, stop, matches>>

\* the frame reads are repeated without waiting for the marker again
LoopBackNoSync == "L33"
\* line 22: while True takes the loop back to the readline of line 24
LoopBack == "L24"

\* lines 39-44: decode response, save it to test.dat, print it, decode and
\* print delay; then back to line 24
EmitFrame ==
    /\ pc = "L39"
    /\ IF ~CanDecode(response, 2)
       THEN /\ pc' = "raised"
            /\ err' = "ValueError"
            /\ errAt' = "L39"
            /\ UNCHANGED <<response, out, testdat>>
       ELSE /\ response' = FromBuffer(response, 2)
            /\ testdat' = FromBuffer(response, 2)
            /\ IF ~CanDecode(delay, 4)
               THEN /\ pc' = "raised"
                    /\ err' = "ValueError"
                    /\ errAt' = "L44"
                    /\ out' = Append(out,
                          [samples |-> FromBuffer(response, 2),
                           timing |-> <<>>,
                           srcSamples |-> Offsets(response),
                           srcTiming |-> <<>>])
               ELSE /\ pc' = LoopBack
                    /\ UNCHANGED <<err, errAt>>
                    /\ out' = Append(out,
                          [samples |-> FromBuffer(response, 2),
                           timing |-> FromBuffer(delay, 4),
                           srcSamples |-> Offsets(response),
                           srcTiming |-> Offsets(delay)])
    /\ UNCHANGED <<segs, stream, rd, start, discard, delay, serIsOpen,
                   lastDropped, stop, matches>>

\* the lines at which the script is in the SOT wait loop / reads a frame
SyncPcs == {"L24", "L25"}
FramePcs == {"L33", "L35", "L37", "L38"}

\* the script is about to call ser.readline() or ser.read()
AtRead ==
    \/ pc = "L24"
    \/ pc = "L25" /\ ~IsSOT(start)
    \/ pc \in FramePcs

\* the read retries instead of ending the script
ReadRaisesRetry ==
    /\ AtRead
    /\ err = "none"
    /\ err' = "SerialException"
    /\ errAt' = pc
    /\ UNCHANGED <<segs, stream, rd, pc, start, response, discard, delay, out,
                   testdat, serIsOpen, lastDropped, stop, matches>>

\* a read raises serial.SerialException; nothing catches it, the script ends
ReadRaises ==
    /\ AtRead
    /\ pc' = "raised"
    /\ err' = "SerialException"
    /\ errAt' = pc
    /\ UNCHANGED <<segs, stream, rd, start, response, discard, delay, out,
                   testdat, serIsOpen, lastDropped, stop, matches>>

\* somebody asks the acquisition to stop
SetStop ==
    /\ ~stop
    /\ pc # "raised"
    /\ stop' = TRUE
    /\ UNCHANGED <<segs, stream, rd, pc, start, response, discard, delay, out,
                   testdat, err, errAt, serIsOpen, lastDropped, matches>>

\* the steps the script takes when its reads return
Progress ==
    \/ FirstLine
    \/ SyncDiscard
    \/ SyncFound
    \/ ReadPayload
    \/ ReadDelim1
    \/ ReadTiming
    \/ ReadDelim2
    \/ EmitFrame

AcqNext ==
    /\ \/ Progress
       \/ ReadRaises
       \/ SetStop
    /\ UNCHANGED <<commVars, calVars>>

Spec == Init /\ [][AcqNext]_vars

\* the interpreter keeps running the script: a step it can take, it takes
FairSpec == Spec /\ WF_vars(Progress /\ UNCHANGED <<commVars, calVars>>)

\* the pending read can never return: the stream holds too few bytes for it
Starved ==
    \/ pc = "L24" /\ ~CanReadLine
    \/ pc = "L25" /\ ~IsSOT(start) /\ ~CanReadLine
    \/ pc = "L33" /\ ~CanRead(PayloadLen)
    \/ pc \in {"L35", "L38"} /\ ~CanRead(DelimLen)
    \/ pc = "L37" /\ ~CanRead(TimingLen)

----------------------------------------------------------------------------
(* USBCommunicator.py: openPort and closePort.  __init__ (lines 42-44) only *)
(* refreshes portList: it sets neither ser nor isPortOpen.                  *)

Ports == {"/dev/ttyACM0", "/dev/ttyACM1"}

\* what a call records: the exception raised inside the try block (cause), the
\* exception that leaves the method (raised), and isPortOpen before the call
Call(op, port, cause, raised) ==
    [op |-> op, port |-> port, cause |-> cause, raised |-> raised,
     before |-> isPortOpen]

\* self.ser is rebound (line 64): the Serial object it named is unreferenced,
\* and its descriptor is closed if and when the object is finalized
Rebind(finalized) ==
    /\ ser' = nextId
    /\ nextId' = nextId + 1
    /\ handles' = (IF finalized THEN handles \ {ser} ELSE handles) \cup {nextId}

\* the except block without line 68
OpenPortExceptKeepsFlag(port, cause) ==
    /\ UNCHANGED isPortOpen
    /\ last' = Call("openPort", port, cause, "RuntimeError")

\* lines 67-69: except Exception: isPortOpen = False; raise RuntimeError
OpenPortExcept(port, cause) ==
    /\ isPortOpen' = "False"
    /\ last' = Call("openPort", port, cause, "RuntimeError")

\* lines 59-69
openPort(port) ==
    /\ nextId <= MaxHandles
    /\ \E outcome \in {"ok", "Serial raises", "flushInput raises"},
          finalized \in BOOLEAN :
        CASE outcome = "Serial raises" ->
                \* line 64 raises: self.ser is not assigned
                /\ finalized
                /\ OpenPortExcept(port, "SerialException")
                /\ UNCHANGED <<ser, handles, nextId, held>>
          [] outcome = "flushInput raises" ->
                \* line 64 opened the port, line 65 raises
                /\ Rebind(finalized)
                /\ OpenPortExcept(port, "SerialException")
                /\ UNCHANGED held
          [] outcome = "ok" ->
                /\ Rebind(finalized)
                /\ isPortOpen' = "True"
                /\ held' = TRUE
                /\ last' = Call("openPort", port, "none", "none")

\* the except block of closePort marks the port closed, as that of openPort does
ClosePortExceptResets(cause) ==
    /\ last' = Call("closePort", "", cause, "RuntimeError")
    /\ isPortOpen' = "False"
    /\ UNCHANGED <<ser, handles, nextId, held>>

\* lines 75-76: except Exception: raise RuntimeError
ClosePortExcept(cause) ==
    /\ last' = Call("closePort", "", cause, "RuntimeError")
    /\ UNCHANGED <<isPortOpen, ser, handles, nextId, held>>

\* lines 71-76
closePort ==
    IF ser = 0
    THEN \* self.ser does not exist: AttributeError
         ClosePortExcept("AttributeError")
    ELSE \/ \* ser.close() returns (also on a handle that is closed already)
            /\ handles' = handles \ {ser}
            /\ isPortOpen' = "False"
            /\ held' = FALSE
            /\ last' = Call("closePort", "", "none", "none")
            /\ UNCHANGED <<ser, nextId>>
         \/ \* ser.close() raises while closing the descriptor
            /\ ser \in handles
            /\ ClosePortExcept("SerialException")

CommNext ==
    /\ \/ \E port \in Ports : openPort(port)
       \/ closePort
    /\ UNCHANGED <<acqVars, calVars>>

\* a fresh USBCommunicator, the acquisition script not running
CommInit == Init /\ segs = <<>>

CommSpec == CommInit /\ [][CommNext]_vars

----------------------------------------------------------------------------
(* calibrationWindow.py: CalibrationWindow.  __init__ (lines 102-108) runs   *)
(* initUI and initCalVec.  The value of the least squares fit is not         *)
(* computed: the array it gives is named by the points the fit was given,    *)
(* and each wavelength it shows in the table is a number, written Wl.        *)

\* the user types text into a cell of the table (tableWidget is editable)
EditCell ==
    /\ \E r \in 1..Len(table) :
          \/ \E c \in PixTexts : table' = [table EXCEPT ![r].pix = c]
          \/ \E c \in WlTexts : table' = [table EXCEPT ![r].wl = c]
    /\ UNCHANGED <<calibration_table, disk>>

\* lines 166-168: insertRow(rowCount): a row with no items, at the end
onAddClick ==
    /\ Len(table) < MaxRows
    /\ table' = Append(table, [pix |-> NoItem, wl |-> NoItem])
    /\ UNCHANGED <<calibration_table, disk>>

\* lines 171-173: removeRow(rowCount - 1); removeRow(-1) removes nothing
onRemoveClick ==
    /\ table' = IF table = <<>> THEN table ELSE SubSeq(table, 1, Len(table) - 1)
    /\ UNCHANGED <<calibration_table, disk>>

\* the order of the item texts of column 0: "" before the digits
SortKey(row) == IF row.pix.num THEN row.pix.val ELSE -1

\* row x put into the sorted rows t, after the rows that do not come after it
RECURSIVE InsertRow(_, _)
InsertRow(t, x) ==
    IF t = <<>> THEN <<x>>
    ELSE IF SortKey(Head(t)) <= SortKey(x)
         THEN <<Head(t)>> \o InsertRow(Tail(t), x)
         ELSE <<x>> \o t

RECURSIVE SortRows(_)
SortRows(t) ==
    IF t = <<>> THEN <<>>
    ELSE InsertRow(SortRows(SubSeq(t, 1, Len(t) - 1)), t[Len(t)])

HasPixItem(row) == row.pix.item
HasNoPixItem(row) == ~row.pix.item

\* line 178, sortItems(0): the rows with an item in column 0 in ascending
\* order of its text, rows of equal text in their old order, then the rows
\* with no item in column 0
SortItems(t) == SortRows(SelectSeq(t, HasPixItem)) \o SelectSeq(t, HasNoPixItem)

\* lines 190-196 reach holder[row,:] = (pix,wl): both cells have an item, int()
\* and float() take their texts, and 0 <= pix < 3000
Accepted(row) ==
    /\ row.pix.item /\ row.wl.item
    /\ row.pix.num /\ row.wl.num
    /\ ~(row.pix.val < 0 \/ row.pix.val >= CalPixels)

\* lines 182, 188-201: holder is np.zeros((nrow,2)); the row of an accepted
\* table row is set to (pix, wl), the row of a rejected one stays (0, 0)
Holder(t) ==
    [r \in 1..Len(t) |->
        IF Accepted(t[r]) THEN <<t[r].pix.val, t[r].wl.val>> ELSE <<0, 0>>]

\* lines 156-163, displayCalibrationTable: 3000 rows, pixel and wavelength
Display == [i \in 1..CalPixels |-> [pix |-> Num(i - 1), wl |-> Num(Wl)]]

\* lines 176-214
onCalculateClick ==
    /\ IF table = <<>>
       THEN \* np.polyfit raises TypeError on empty vectors: the slot ends
            UNCHANGED <<table, calibration_table>>
       ELSE /\ calibration_table' =
                  [kind |-> "fit", len |-> CalPixels,
                   points |-> Holder(SortItems(table))]
            /\ table' = Display
    /\ UNCHANGED disk

\* lines 223-234: the array of the file the user picks, whatever its length;
\* when the dialog is cancelled or the file cannot be read, np.load raises
\* and the except block leaves calibration_table as it is
onLoadClick ==
    /\ \E f \in {NoFile, ForeignFile, disk} :
          calibration_table' = IF f = NoFile THEN calibration_table ELSE f
    /\ UNCHANGED <<table, disk>>

\* lines 237-246: np.save writes the array, or raises and nothing is written
onSaveClick ==
    /\ \E written \in BOOLEAN :
          disk' = IF written THEN calibration_table ELSE disk
    /\ UNCHANGED <<table, calibration_table>>

CalNext ==
    /\ \/ EditCell
       \/ onAddClick
       \/ onRemoveClick
       \/ onCalculateClick
       \/ onLoadClick
       \/ onSaveClick
    /\ UNCHANGED <<acqVars, commVars>>

\* a fresh CalibrationWindow, the acquisition script not running
CalInit == Init /\ stream = <<>>

CalSpec == CalInit /\ [][CalNext]_vars

----------------------------------------------------------------------------
(* Properties of the acquisition loop *)

\* the frame a whole segment carries, by the wire format: sample k is
\* byte 2k-1 + 256 * byte 2k of the payload, timing is the 32-bit value of
\* the four timing bytes, least significant byte first
WireFrame(g) ==
    [samples |-> [k \in 1..PixelCount |-> g.payload[2 * k - 1] + 256 * g.payload[2 * k]],
     timing |-> <<g.timing[1] + 256 * g.timing[2] + 65536 * g.timing[3]
                  + 16777216 * g.timing[4]>>]

\* what a printed record shows
Shown(f) == [samples |-> f.samples, timing |-> f.timing]

\* the script waits for ever in a read and has raised nothing
Quiescent == Starved /\ err = "none"

\* the stream is one whole frame after its noise and marker
OneFrameStream == Len(segs) = 1 /\ segs[1].sent = WholeBody

\* the noise is made of whole lines, none of them the marker
LineNoise(n) ==
    /\ n = <<>> \/ n[Len(n)] = NL
    /\ ~\E j \in 1..(Len(n) - Len(SOT) + 1) :
          /\ SubSeq(n, j, j + Len(SOT) - 1) = SOT
          /\ j = 1 \/ n[j - 1] = NL

\* the stream is whole frames, each marker right after the previous delimiter 2
BackToBack ==
    /\ Len(segs) >= 1
    /\ \A i \in 1..Len(segs) : segs[i].noise = <<>> /\ segs[i].sent = WholeBody

\* C1: in the SOT wait loop a line that is not the marker, byte for byte, is
\* dropped (the loop stays in the wait loop or the next readline raises, and
\* nothing is printed), and the loop goes on to read a frame only from a line
\* that equals the marker.
C1_MarkerExactness ==
    [][ /\ (pc = "L25" /\ start # SOT) => (pc' \in {"L25", "raised"} /\ out' = out)
        /\ (pc \in SyncPcs /\ pc' = "L33") => (pc = "L25" /\ start = SOT)
      ]_vars

\* C1 witness: a line that ends with the marker was dropped, the next line is
\* the marker
C1_Witness ==
    /\ pc = "L25"
    /\ start = SOT
    /\ lastDropped = <<48>> \o SOT

\* C2: a read of the frame that cannot be served (the stream ends after the
\* marker or inside the frame) makes the loop terminate, with no frame printed.
C2_FailFast == (pc \in FramePcs /\ Starved) ~> (pc = "raised")

\* C3 as claimed: on a stream noise, marker, one whole frame, whatever the
\* noise, the script prints exactly that frame.
C3_AnyNoise ==
    OneFrameStream =>
        /\ Len(out) <= 1
        /\ Quiescent => (Len(out) = 1 /\ Shown(out[1]) = WireFrame(segs[1]))

\* C3 amended: on a stream noise, marker, one whole frame, where the noise is
\* empty or made of whole lines none of which is the marker, the script prints
\* exactly that frame: samples little-endian 16-bit in wire order, timing the
\* little-endian 32-bit value.
C3_WholeLineNoise ==
    (OneFrameStream /\ LineNoise(segs[1].noise)) =>
        /\ Len(out) <= 1
        /\ \A i \in 1..Len(out) : Shown(out[i]) = WireFrame(segs[1])
        /\ Quiescent => Len(out) = 1

\* C3 witness: the frame 08 00 10 00 ... FF 01 00 00 00 FF after noise lines
C3_Witness ==
    /\ OneFrameStream
    /\ segs[1].noise = NoiseLines
    /\ Quiescent
    /\ Len(out) = 1
    /\ out[1].samples[1] = 8 /\ out[1].samples[2] = 16 /\ out[1].samples[3] = 24
    /\ out[1].timing = <<1>>

\* C4: on back-to-back frames the loop goes from printing a frame to the wait
\* loop, finds the marker in the first line it reads and goes on to read the
\* next frame; each step that prints appends the next frame of the stream, so
\* the frames come out in stream order, none skipped, none twice, and all of
\* them are out when the stream is used up.
C4_BackToBack ==
    [][ BackToBack =>
          /\ (pc = "L39" /\ pc' # "L39") =>
                /\ pc' = "L24"
                /\ Len(out) < Len(segs)
                /\ Len(out') = Len(out) + 1
                /\ SubSeq(out', 1, Len(out)) = out
                /\ Shown(out'[Len(out')]) = WireFrame(segs[Len(out')])
          /\ (pc = "L24" /\ pc' = "L25") => start' = SOT
          /\ (pc = "L25" /\ pc' \notin {"L25", "raised"}) => pc' = "L33"
          /\ (pc # "L39" /\ pc' # "L39") => out' = out
          /\ Quiescent => (pc = "L24" /\ Len(out) = Len(segs))
      ]_vars

\* C4 witness: two back-to-back frames, both printed
C4_Witness ==
    /\ BackToBack
    /\ Len(segs) = 2
    /\ Len(out) = 2
    /\ pc = "L24"

\* C5: the bytes of a printed frame are the 2*PixelCount bytes right after a
\* marker (samples) and the 4 bytes one byte further on (timing), with their
\* values; frames do not overlap, and a frame starts after the delimiter 2 of
\* the frame before it and a marker.  So no byte of a dropped line, of a
\* marker or of a delimiter is in a frame.
C5_NoLeakage ==
    \A i \in 1..Len(out) :
        \E m \in Len(SOT)..Len(stream) :
            /\ SubSeq(stream, m - Len(SOT) + 1, m) = SOT
            /\ out[i].srcSamples = [j \in 1..(2 * PixelCount) |-> m + j]
            /\ out[i].srcTiming = [j \in 1..4 |-> m + 2 * PixelCount + 1 + j]
            /\ out[i].samples =
                  [k \in 1..PixelCount |-> stream[m + 2 * k - 1] + 256 * stream[m + 2 * k]]
            /\ out[i].timing =
                  << stream[m + 2 * PixelCount + 2] + 256 * stream[m + 2 * PixelCount + 3]
                     + 65536 * stream[m + 2 * PixelCount + 4]
                     + 16777216 * stream[m + 2 * PixelCount + 5] >>
            /\ i > 1 => m >= out[i - 1].srcTiming[4] + 1 + Len(SOT)

\* C5 witness: two frames printed, lines dropped before the second one, whose
\* delimiters were read into discard
C5_Witness ==
    /\ Len(out) = 2
    /\ Len(segs) = 2
    /\ segs[2].noise = NoiseLines
    /\ discard # <<>>
    /\ pc = "L24"

\* C6: every printed frame has PixelCount samples decoded from 2*PixelCount
\* bytes and one timing value decoded from 4 bytes; the buffers handed to
\* np.frombuffer have these sizes and decoding raises nothing.
C6_FrameSize ==
    /\ \A i \in 1..Len(out) :
          /\ Len(out[i].samples) = PixelCount
          /\ Len(out[i].srcSamples) = 2 * PixelCount
          /\ Len(out[i].timing) = 1
          /\ Len(out[i].srcTiming) = 4
    /\ pc = "L39" => (Len(response) = 2 * PixelCount /\ Len(delay) = 4)
    /\ err # "ValueError"

\* C6 witness: a frame was printed from a stream with noise and a second,
\* cut, frame
C6_Witness ==
    /\ Len(out) = 1
    /\ Len(segs) = 2
    /\ segs[2].sent < WholeBody
    /\ Quiescent

\* C9: once the stop request is set the loop starts no new cycle: from line 24
\* it does not go on to the SOT wait loop.  (The claim's other half, closing
\* the port before leaving, has no counterpart in the loop: ser.close() is
\* line 68, after the endless loop, and serIsOpen never changes.)
C9_Cancellation ==
    [][ (stop /\ pc = "L24") => pc' # "L25" ]_vars

\* C10: a readline that raises in the SOT wait loop ends the script: after it
\* the script is at no line, reads nothing more and prints nothing more.
C10_SyncFailureFatal ==
    [][ /\ (err' # "none" /\ errAt' \in SyncPcs) => pc' = "raised"
        /\ (err # "none" /\ errAt \in SyncPcs) =>
              (pc' = pc /\ rd' = rd /\ out' = out /\ start' = start)
      ]_vars

\* C10 witness: readline raised after a line had been dropped
C10_Witness ==
    /\ pc = "raised"
    /\ err = "SerialException"
    /\ errAt = "L25"
    /\ lastDropped # <<>>
    /\ out = <<>>

----------------------------------------------------------------------------
(* Properties of USBCommunicator *)

\* C7: when openPort raises, what it raises is a RuntimeError and isPortOpen
\* is False afterwards, whatever it was before.
C7_FailedOpenNotOpen ==
    (last.op = "openPort" /\ (last.cause # "none" \/ last.raised # "none")) =>
        /\ last.raised = "RuntimeError"
        /\ isPortOpen = "False"

\* C7 witness: openPort failed in flushInput while a port was marked open
C7_Witness ==
    /\ last.op = "openPort"
    /\ last.raised = "RuntimeError"
    /\ last.before = "True"
    /\ ser \in handles
    /\ isPortOpen = "False"

\* C8: isPortOpen is always defined, and True exactly when an openPort
\* succeeded and no closePort has succeeded since.
C8_IsPortOpenBoolean ==
    /\ isPortOpen \in {"True", "False"}
    /\ isPortOpen = "True" <=> held

\* C16: after any calls of openPort and closePort at most one serial handle
\* the communicator opened is open, and it is the one ser names.
C16_SingleHandle == handles \subseteq {ser}

\* C17: a closePort that raises raises RuntimeError and leaves isPortOpen and
\* ser as they were (also when ser was never assigned); isPortOpen becomes
\* False only in a closePort whose ser.close() returned, and then the handle
\* ser names is closed.
C17_FailedCloseKeepsState ==
    [][ last'.op = "closePort" =>
          IF last'.cause # "none"
          THEN /\ last'.raised = "RuntimeError"
               /\ isPortOpen' = isPortOpen
               /\ ser' = ser
               /\ handles' = handles
          ELSE /\ last'.raised = "none"
               /\ isPortOpen' = "False"
               /\ ser' = ser
               /\ ser \notin handles' ]_vars

\* C17 witness: ser.close() raised while the port was marked open, and the
\* port is still marked open and the handle still open
C17_Witness ==
    /\ last.op = "closePort"
    /\ last.cause = "SerialException"
    /\ last.raised = "RuntimeError"
    /\ last.before = "True"
    /\ isPortOpen = "True"
    /\ ser \in handles

----------------------------------------------------------------------------
(* Further properties of the acquisition loop *)

\* reading lines from position p of the stream comes to a line equal to SOT
RECURSIVE MarkerAhead(_)
MarkerAhead(p) ==
    IF ~\E j \in (p + 1)..Len(stream) : stream[j] = NL
    THEN FALSE
    ELSE LET e == CHOOSE j \in (p + 1)..Len(stream) :
                     stream[j] = NL /\ \A i \in (p + 1)..(j - 1) : stream[i] # NL
         IN  SubSeq(stream, p + 1, e) = SOT \/ MarkerAhead(e)

\* the wait loop has the marker in hand or ahead of it
WillSync ==
    \/ pc = "L24" /\ MarkerAhead(rd)
    \/ pc = "L25" /\ (start = SOT \/ MarkerAhead(rd))

\* C11: however many lines have to be dropped first, if the lines still to
\* come hold one equal to the marker and no readline raises, the wait loop
\* comes to reading the frame; if they hold none, the loop stays in the wait
\* loop (or ends on an exception) and prints nothing.
C11_SyncLive ==
    /\ WillSync ~> (pc = "L33" \/ err # "none")
    /\ [][ (pc \in SyncPcs /\ ~WillSync) =>
              (pc' \in SyncPcs \cup {"raised"} /\ out' = out) ]_vars

\* C11 witness: the four noise lines were dropped, then the marker was found
C11_Witness ==
    /\ pc = "L33"
    /\ lastDropped = <<NL>>
    /\ out = <<>>
    /\ segs[1].noise = NoiseLines

\* C12: the four reads of a cycle take the 2*PixelCount bytes after the
\* marker, the next byte, the next 4 bytes and the next byte, in this order:
\* 2*PixelCount + 6 bytes in all, so that after a frame the next readline
\* starts at the byte after delimiter 2, whatever the payload holds.
C12_StreamPosition ==
    /\ pc \in {"L35", "L37", "L38", "L39"} =>
          /\ Len(response) = 2 * PixelCount
          /\ SubSeq(stream, response[1].o - Len(SOT), response[1].o - 1) = SOT
    /\ pc = "L35" => rd = response[1].o - 1 + 2 * PixelCount
    /\ pc = "L37" =>
          /\ rd = response[1].o - 1 + 2 * PixelCount + 1
          /\ Offsets(discard) = <<rd>>
    /\ pc = "L38" =>
          /\ rd = response[1].o - 1 + 2 * PixelCount + 5
          /\ Offsets(delay) = <<rd - 3, rd - 2, rd - 1, rd>>
    /\ pc = "L39" =>
          /\ rd = response[1].o - 1 + 2 * PixelCount + 6
          /\ Offsets(discard) = <<rd>>
          /\ Offsets(delay) = <<rd - 4, rd - 3, rd - 2, rd - 1>>
    /\ (pc = "L24" /\ Len(out) > 0) =>
          rd = out[Len(out)].srcSamples[1] - 1 + 2 * PixelCount + 6

\* C12 witness: a frame whose payload holds the marker and a newline was
\* read, and the wait loop starts right after its delimiter 2
C12_Witness ==
    /\ pc = "L24"
    /\ Len(out) = 1
    /\ segs[1].noise = <<>>
    /\ segs[1].payload = MarkerPayload
    /\ rd = Len(SOT) + 2 * PixelCount + 6

\* C13: every frame printed has its own marker match before it: the frames
\* printed are never more than the matches of the wait loop, in the wait loop
\* every match has had its frame printed, between a match and its frame
\* exactly one match is open, nothing is printed from the wait loop, and
\* printing a frame takes the loop back to the wait loop.
C13_FrameAfterOwnSync ==
    /\ [](/\ Len(out) <= matches
          /\ pc \in SyncPcs => matches = Len(out)
          /\ pc \in FramePcs \cup {"L39"} => matches = Len(out) + 1)
    /\ [][ /\ pc \in SyncPcs => out' = out
           /\ out' # out => pc' \in SyncPcs \cup {"raised"}
           /\ (pc' = "L33" /\ pc # "L33") => (pc = "L25" /\ start = SOT) ]_vars

\* C13 witness: after the first frame the wait loop is dropping lines again
C13_Witness ==
    /\ pc = "L25"
    /\ Len(out) = 1
    /\ matches = 1
    /\ lastDropped # <<>>

\* line 7: the bytes in the input buffer when the port is opened, left from
\* before the script ran: the bytes before the first marker
StaleLen == IF segs = <<>> THEN 0 ELSE Len(segs[1].noise)

\* C14: the bytes that were in the input buffer when the port was opened are
\* never read by the wait loop or the frame reads (line 21, which would
\* flush them, is commented out, so no step of the script discards them).
C14_StaleNeverRead == \A o \in 1..rd : o > StaleLen

----------------------------------------------------------------------------
(* The loop of lines 22-44 as a function of the stream, to compare the
   frames printed on two streams *)

\* the bytes s[a..b] as read(n) returns them
CellsOf(s, a, b) == [i \in 1..(b - a + 1) |-> [o |-> a + i - 1, v |-> s[a + i - 1]]]

\* lines 24-28 on stream s from position p: the position of the last byte of
\* the first line equal to SOT, or -1 when readline blocks before one comes
RECURSIVE MarkerEnd(_, _)
MarkerEnd(s, p) ==
    IF ~\E j \in (p + 1)..Len(s) : s[j] = NL
    THEN -1
    ELSE LET e == CHOOSE j \in (p + 1)..Len(s) :
                     s[j] = NL /\ \A i \in (p + 1)..(j - 1) : s[i] # NL
         IN  IF IsSOT(SubSeq(s, p + 1, e)) THEN e ELSE MarkerEnd(s, e)

\* lines 22-44 on stream s from position p, no read raising: the frames printed
RECURSIVE FramesOn(_, _)
FramesOn(s, p) ==
    LET m == MarkerEnd(s, p)
        t == m + PayloadLen + DelimLen
    IN  IF m < 0 \/ m + FrameLen > Len(s)
        THEN <<>>
        ELSE << [samples |-> FromBuffer(CellsOf(s, m + 1, m + PayloadLen), 2),
                 timing |-> FromBuffer(CellsOf(s, t + 1, t + TimingLen), 4)] >>
             \o FramesOn(s, m + FrameLen)

\* the other value of a delimiter byte
Flip(d) == IF d = <<NL>> THEN <<255>> ELSE <<NL>>

\* the stream with other delimiter bytes and everything else the same
Twin(ss) == [i \in DOMAIN ss |-> [ss[i] EXCEPT !.d1 = Flip(@), !.d2 = Flip(@)]]

\* the records printed so far
ShownAll == [i \in DOMAIN out |-> Shown(out[i])]

\* C15 as stated: whatever the stream, the frames printed when the script has
\* read all of it are those printed on the stream that differs from it in
\* the delimiter bytes only.
C15_DelimsIrrelevant ==
    Quiescent => ShownAll = FramesOn(Flatten(Twin(segs)), 0)

\* C15 amended: when the bytes before every marker are whole lines, none of
\* them the marker, every whole frame of the stream is printed whatever its
\* delimiter bytes are, and the frames printed are those printed on the
\* stream that differs in the delimiter bytes only.  (On every stream the
\* frames printed are those of the loop taken as a function of the stream.)
C15_DelimsIrrelevantInSync ==
    Quiescent =>
        /\ ShownAll = FramesOn(stream, 0)
        /\ (\A i \in DOMAIN segs : LineNoise(segs[i].noise)) =>
              /\ ShownAll = FramesOn(Flatten(Twin(segs)), 0)
              /\ Len(out) = Cardinality({i \in DOMAIN segs : segs[i].sent = WholeBody})

\* C15 witness: two frames with newline delimiters, whole lines before each
\* marker, both printed
C15_Witness ==
    /\ Quiescent
    /\ Len(out) = 2
    /\ \A i \in DOMAIN segs : segs[i].noise = NoiseLines /\ segs[i].d2 = <<NL>>

----------------------------------------------------------------------------
(* Properties of CalibrationWindow *)

\* C18: after construction and after any clicks and edits, calibration_table
\* has one entry for each pixel, 3000 in the source.
C18_TableSize == calibration_table.len = CalPixels

\* the points of a holder, as a set
PointSet(h) == {h[r] : r \in 1..Len(h)}

\* C19: the points onCalculateClick passes to the fit are exactly the
\* (pixel, wavelength) pairs of the table rows that passed validation.
C19_RejectedRowsIgnored ==
    [][ (onCalculateClick /\ table # <<>>) =>
          PointSet(calibration_table'.points) =
              {<<table[r].pix.val, table[r].wl.val>> :
                   r \in {q \in 1..Len(table) : Accepted(table[q])}} ]_vars

====
